---- MODULE Spec2Model ----
(***************************************************************************)
(* Model of the Vector<T> / RawMemory<T> container of                      *)
(* cpp-advanced-vector.  Two drafts of the class exist in the repository;  *)
(* their operations act alike on a container within their preconditions,   *)
(* except Insert(pos, T&&) of vector.h, which has an action of its own.    *)
(* PopBack of vector.h has no guard: it requires size_ > 0, where it acts  *)
(* as the guarded one does; what it does on an empty container is given    *)
(* by PopBackUnguarded.                                                    *)
(*                                                                         *)
(* A storage block is a function from slot index to slot content.  A slot  *)
(* is Raw (no object), holds a value, or holds a live object in the        *)
(* moved-from state.  Every public operation is one action; inside it the  *)
(* steps of the C++ body are applied in order to a call record `m`, which  *)
(* carries the storage blocks, the exception flag and the counters of the  *)
(* call.  A fallible step (allocation, element constructor or assignment)  *)
(* throws when the fuse of the call reaches it.                            *)
(***************************************************************************)
EXTENDS Integers, Sequences, FiniteSets, TLC

\* ---- bounds of the model ----
\* largest capacity a container reaches
MaxCap == 4
\* largest capacity of the other operand of an assignment
MaxRhs == 1
\* largest capacity of a container that lives on the heap of blocks
MaxPairCap == 2
\* largest capacity of a RawMemory object
MaxRawCap == 2
\* number of blocks operator new hands out to RawMemory objects
MaxBlocks == 3

\* ---- slot contents ----
Raw == -1
MovedFrom == -2
DefaultValue == 0
\* the container never inspects a value: two values tell positions apart
Values == {DefaultValue, 1}

\* size_t arithmetic wraps around.  The integers of the checker have 32
\* bits, so the size_t of the model is 30 bits wide, wider than any size a
\* container of the model reaches.
SizeModulus == 2^30

\* alive: the container object exists; clean: no call on it has thrown
VARIABLES data_, size_, T, pushRun, alive, clean

\* two containers whose blocks live at addresses of a heap
VARIABLES heap, vecs

\* RawMemory objects, the blocks operator new handed out, the draft the
\* program is built from, the last move, and whether the process died
VARIABLES raws, blocks, rawDraft, moved, aborted

vectorVars == <<data_, size_, pushRun, alive, clean>>

pairVars == <<heap, vecs>>

rawVars == <<raws, blocks, rawDraft, moved, aborted>>

vars == <<data_, size_, T, pushRun, alive, clean, heap, vecs,
          raws, blocks, rawDraft, moved, aborted>>

\* ---- RawMemory ----
RawBlock(n) == [i \in 0..(n - 1) |-> Raw]

Capacity(buf) == Cardinality(DOMAIN buf)

Live(buf) == {i \in DOMAIN buf : buf[i] # Raw}

\* ---- the record of one call ----
Start(data, size, rhs, rsize, fuse) ==
    [data |-> data, size |-> size, rhs |-> rhs, rsize |-> rsize,
     nd |-> RawBlock(0), hasNd |-> FALSE, tmp |-> RawBlock(1),
     thrown |-> FALSE, threw |-> "none", fuse |-> fuse, ret |-> -1,
     allocs |-> 0, frees |-> 0, ctors |-> 0, dtors |-> 0, moves |-> 0,
     assigns |-> 0, leaked |-> 0, bad |-> 0, log |-> << >>]

Fires(m, canThrow) == canThrow /\ m.fuse = 1

Burn(m, canThrow) == IF canThrow /\ m.fuse > 0 THEN m.fuse - 1 ELSE m.fuse

Throw(m, label) == [m EXCEPT !.thrown = TRUE, !.threw = label, !.fuse = 0]

\* one step of a call, as recorded in its log
Event(op, blk, i) == [op |-> op, blk |-> blk, i |-> i]

\* the argument of a call is a value, or a reference to the element at index
\* j of the container itself (as in PushBack(v[j])), written below MovedFrom
Ref(j) == MovedFrom - 1 - j

\* what a constructor reads from its argument at the time it runs
ValueOf(m, v) == IF v < MovedFrom THEN m.data[MovedFrom - 1 - v] ELSE v

\* RawMemory<T> new_data(n): operator new may throw, n = 0 gives nullptr
Allocate(m, n) ==
    IF m.thrown THEN m
    ELSE IF n = 0 THEN [m EXCEPT !.nd = RawBlock(0), !.hasNd = TRUE]
    ELSE IF Fires(m, TRUE) THEN Throw(m, "alloc")
    ELSE [m EXCEPT !.nd = RawBlock(n), !.hasNd = TRUE, !.allocs = @ + 1,
                   !.log = Append(@, Event("alloc", "nd", -1)),
                   !.fuse = Burn(m, TRUE)]

\* mutant: the local block is a plain pointer that nobody deletes
ReleaseForgotten(m) ==
    IF ~m.hasNd THEN m
    ELSE [m EXCEPT !.leaked = @ + Cardinality(Live(m.nd)),
                   !.nd = RawBlock(0), !.hasNd = FALSE]

\* ~RawMemory of the local block: releases the memory, runs no destructor
Release(m) ==
    IF ~m.hasNd THEN m
    ELSE [m EXCEPT !.frees = @ + (IF Capacity(m.nd) > 0 THEN 1 ELSE 0),
                   !.leaked = @ + Cardinality(Live(m.nd)),
                   !.log = IF Capacity(m.nd) > 0
                           THEN Append(@, [op |-> "free", blk |-> "nd", i |-> -1])
                           ELSE @,
                   !.nd = RawBlock(0), !.hasNd = FALSE]

\* new (blk + i) T(v)
Construct(m, blk, i, v, canThrow, label) ==
    IF m.thrown THEN m
    ELSE IF Fires(m, canThrow) THEN Throw(m, label)
    ELSE [m EXCEPT ![blk] = [@ EXCEPT ![i] = ValueOf(m, v)],
                   !.ctors = @ + 1,
                   !.leaked = @ + (IF m[blk][i] # Raw THEN 1 ELSE 0),
                   !.bad = @ + (IF ValueOf(m, v) = Raw THEN 1 ELSE 0),
                   !.log = Append(@, Event("construct", blk, i)),
                   !.fuse = Burn(m, canThrow)]

\* std::destroy_n(blk + first, n)
DestroyN(m, blk, first, n) ==
    LET rng == first..(first + n - 1)
    IN [m EXCEPT ![blk] = [i \in DOMAIN @ |-> IF i \in rng THEN Raw ELSE @[i]],
                 !.dtors = @ + n,
                 !.bad = @ + Cardinality({i \in rng : m[blk][i] = Raw}),
                 !.log = @ \o [k \in 1..n |->
                               [op |-> "destroy", blk |-> blk, i |-> first + k - 1]]]

\* data_.Swap(new_data)
SwapData(m) == [m EXCEPT !.data = m.nd, !.nd = m.data,
                         !.log = Append(@, Event("adopt", "nd", -1))]

\* mutant: relocation always moves
MovesAlways(t) == TRUE

\* the relocation branch chosen by
\* is_nothrow_move_constructible_v<T> || !is_copy_constructible_v<T>
MovesOnRelocation(t) == t.nothrowMove \/ ~t.copyable

\* one placement construction of dst[j] from src[i], by move or by copy
RelocateOne(m, src, i, dst, j, byMove) ==
    LET m1 == [m EXCEPT ![dst] = [@ EXCEPT ![j] = m[src][i]],
                        !.ctors = @ + 1,
                        !.moves = @ + (IF byMove THEN 1 ELSE 0),
                        !.leaked = @ + (IF m[dst][j] # Raw THEN 1 ELSE 0),
                        !.bad = @ + (IF m[src][i] = Raw THEN 1 ELSE 0),
                        !.log = Append(@, Event("relocate", dst, j))]
    IN IF byMove THEN [m1 EXCEPT ![src] = [@ EXCEPT ![i] = MovedFrom]] ELSE m1

\* mutant: a hand-written loop that does not destroy what it constructed
\* when a construction throws
RECURSIVE UninitNNoRollback(_, _, _, _, _, _, _, _, _, _)
UninitNNoRollback(m, src, sFirst, n, dst, dFirst, byMove, canThrow, label, k) ==
    IF m.thrown \/ k >= n THEN m
    ELSE IF Fires(m, canThrow) THEN Throw(m, label)
    ELSE UninitNNoRollback(
             [RelocateOne(m, src, sFirst + k, dst, dFirst + k, byMove)
                 EXCEPT !.fuse = Burn(m, canThrow)],
             src, sFirst, n, dst, dFirst, byMove, canThrow, label, k + 1)

\* std::uninitialized_move_n / std::uninitialized_copy_n: on a throw the
\* objects already constructed in the destination are destroyed
RECURSIVE UninitN(_, _, _, _, _, _, _, _, _, _)
UninitN(m, src, sFirst, n, dst, dFirst, byMove, canThrow, label, k) ==
    IF m.thrown \/ k >= n THEN m
    ELSE IF Fires(m, canThrow) THEN Throw(DestroyN(m, dst, dFirst, k), label)
    ELSE UninitN([RelocateOne(m, src, sFirst + k, dst, dFirst + k, byMove)
                     EXCEPT !.fuse = Burn(m, canThrow)],
                 src, sFirst, n, dst, dFirst, byMove, canThrow, label, k + 1)

UninitializedMoveN(m, t, src, sFirst, n, dst, dFirst, label) ==
    UninitN(m, src, sFirst, n, dst, dFirst, TRUE, ~t.nothrowMove, label, 0)

UninitializedCopyN(m, src, sFirst, n, dst, dFirst, label) ==
    UninitN(m, src, sFirst, n, dst, dFirst, FALSE, TRUE, label, 0)

\* mutant: the relocation stops one element short
RelocateAllButLast(m, t, sFirst, n, dFirst, label) ==
    IF MovesOnRelocation(t)
    THEN UninitializedMoveN(m, t, "data", sFirst, n - 1, "nd", dFirst, label)
    ELSE UninitializedCopyN(m, "data", sFirst, n - 1, "nd", dFirst, label)

Relocate(m, t, sFirst, n, dFirst, label) ==
    IF MovesOnRelocation(t)
    THEN UninitializedMoveN(m, t, "data", sFirst, n, "nd", dFirst, label)
    ELSE UninitializedCopyN(m, "data", sFirst, n, "nd", dFirst, label)

\* mutant: the block grows by one slot
GrownCapacityByOne(size) == size + 1

GrownCapacity(size) == IF size = 0 THEN 1 ELSE size * 2

\* ++size_
IncSize(m) ==
    IF m.thrown THEN m
    ELSE [m EXCEPT !.size = @ + 1,
                   !.log = Append(@, Event("size", "data", -1))]

\* std::destroy_n(data_.GetAddress(), size_); data_.Swap(new_data);
Adopt(m) == IF m.thrown THEN m ELSE SwapData(DestroyN(m, "data", 0, m.size))

\* mutant: the existing elements are relocated before the new element is
\* constructed
EmplaceBackRelocatesFirst(m0, t, v, ctorThrows) ==
    IF m0.size = Capacity(m0.data)
    THEN LET m1 == Allocate(m0, GrownCapacity(m0.size))
             m2 == Relocate(m1, t, 0, m0.size, 0, "reloc")
             m3 == Construct(m2, "nd", m0.size, v, ctorThrows, "ctor")
             m4 == Adopt(m3)
             m5 == Release(m4)
         IN [IncSize(m5) EXCEPT !.ret = m0.size]
    ELSE [IncSize(Construct(m0, "data", m0.size, v, ctorThrows, "ctor"))
             EXCEPT !.ret = m0.size]

\* Vector::EmplaceBack (and the two inlined PushBack of vector.h)
EmplaceBack(m0, t, v, ctorThrows) ==
    IF m0.size = Capacity(m0.data)
    THEN LET m1 == Allocate(m0, GrownCapacity(m0.size))
             m2 == Construct(m1, "nd", m0.size, v, ctorThrows, "ctor")
             m3 == Relocate(m2, t, 0, m0.size, 0, "reloc")
             m4 == Adopt(m3)
             m5 == Release(m4)
         IN [IncSize(m5) EXCEPT !.ret = m0.size]
    ELSE [IncSize(Construct(m0, "data", m0.size, v, ctorThrows, "ctor"))
             EXCEPT !.ret = m0.size]

\* dst[j] = std::move(src[i]) or dst[j] = src[i]
AssignOne(m, src, i, dst, j, byMove, canThrow, label) ==
    IF m.thrown THEN m
    ELSE IF Fires(m, canThrow) THEN Throw(m, label)
    ELSE LET m1 == [m EXCEPT ![dst] = [@ EXCEPT ![j] = m[src][i]],
                             !.assigns = @ + 1,
                             !.moves = @ + (IF byMove THEN 1 ELSE 0),
                             !.bad = @ + (IF m[src][i] = Raw THEN 1 ELSE 0)
                                       + (IF m[dst][j] = Raw THEN 1 ELSE 0),
                             !.fuse = Burn(m, canThrow)]
         IN IF byMove /\ ~(src = dst /\ i = j)
            THEN [m1 EXCEPT ![src] = [@ EXCEPT ![i] = MovedFrom]]
            ELSE m1

\* mutant: the backward shift leaves the element at the insert position
RECURSIVE MoveBackwardShort(_, _, _, _)
MoveBackwardShort(m, t, first, k) ==
    IF m.thrown \/ k <= first THEN m
    ELSE MoveBackwardShort(AssignOne(m, "data", k, "data", k + 1, TRUE,
                                     ~t.nothrowMoveAssign, "shift"),
                           t, first, k - 1)

\* std::move_backward(data_ + first, data_ + lastx, data_ + lastx + 1)
RECURSIVE MoveBackward(_, _, _, _)
MoveBackward(m, t, first, k) ==
    IF m.thrown \/ k < first THEN m
    ELSE MoveBackward(AssignOne(m, "data", k, "data", k + 1, TRUE,
                                ~t.nothrowMoveAssign, "shift"),
                      t, first, k - 1)

\* std::move(data_ + k, data_ + size_, data_ + k - 1)
RECURSIVE MoveForward(_, _, _)
MoveForward(m, t, k) ==
    IF m.thrown \/ k >= m.size THEN m
    ELSE MoveForward(AssignOne(m, "data", k, "data", k - 1, TRUE,
                               ~t.nothrowMoveAssign, "shift"),
                     t, k + 1)

\* the catch blocks of Emplace: one try per relocated range
EmplaceCatch(m, index) ==
    IF m.threw = "prefix" THEN DestroyN(m, "nd", index, 1)
    ELSE IF m.threw = "suffix" THEN DestroyN(m, "nd", 0, index + 1)
    ELSE m

\* the catch block of Insert(const_iterator, T&&) in vector.h: one try
\* around both ranges, destroying the new element only
InsertCatch(m, index) ==
    IF m.threw \in {"prefix", "suffix"} THEN DestroyN(m, "nd", index, 1)
    ELSE m

EmplaceGrow(m0, t, index, v, ctorThrows, oneTry) ==
    LET m1 == Allocate(m0, GrownCapacity(m0.size))
        m2 == Construct(m1, "nd", index, v, ctorThrows, "ctor")
        m3 == Relocate(m2, t, 0, index, 0, "prefix")
        m4 == Relocate(m3, t, index, m0.size - index, index + 1, "suffix")
        m5 == IF oneTry THEN InsertCatch(m4, index) ELSE EmplaceCatch(m4, index)
    IN Release(Adopt(m5))

\* T temp_value(args); new (data_ + size_) T(std::move(data_[size_ - 1]));
\* std::move_backward(...); data_[index] = std::move(temp_value);
EmplaceInPlace(m0, t, index, v, ctorThrows) ==
    LET m1 == Construct(m0, "tmp", 0, v, ctorThrows, "ctor")
        m2 == UninitN(m1, "data", m0.size - 1, 1, "data", m0.size, TRUE,
                      ~t.nothrowMove, "movector", 0)
        m3 == MoveBackward(m2, t, index, m0.size - 2)
        m4 == AssignOne(m3, "tmp", 0, "data", index, TRUE,
                        ~t.nothrowMoveAssign, "assign")
    IN IF m4.threw = "ctor" THEN m4 ELSE DestroyN(m4, "tmp", 0, 1)

\* Vector::Emplace, Vector::Insert
Emplace(m0, t, index, v, ctorThrows, oneTry) ==
    LET m1 == IF m0.size = Capacity(m0.data)
              THEN EmplaceGrow(m0, t, index, v, ctorThrows, oneTry)
              ELSE EmplaceInPlace(m0, t, index, v, ctorThrows)
    IN [IncSize(m1) EXCEPT !.ret = index]

\* mutant: the length is decremented, the destructor is not run
PopBackNoDestroy(m) ==
    IF m.size > 0 THEN [m EXCEPT !.size = @ - 1] ELSE m

\* Vector::PopBack; the caller keeps to size_ > 0 where the draft has no guard
PopBack(m) ==
    IF m.size > 0
    THEN [DestroyN(m, "data", m.size - 1, 1) EXCEPT !.size = @ - 1]
    ELSE m

\* Vector::PopBack of vector.h: data_[size_ - 1].~T(); --size_; with no
\* guard.  On an empty container the destructor is run on data_[-1], where
\* there is no object, which is undefined: either the call returns with
\* size_ wrapped around, or the process dies inside the destructor.
PopBackUnguarded(m) ==
    IF m.size > 0
    THEN {[DestroyN(m, "data", m.size - 1, 1) EXCEPT !.size = @ - 1]}
    ELSE LET d == [m EXCEPT !.dtors = @ + 1, !.bad = @ + 1]
         IN {[d EXCEPT !.size = (@ - 1) % SizeModulus],
             [d EXCEPT !.thrown = TRUE, !.threw = "crash"]}

\* Vector::Erase
Erase(m0, t, index) ==
    LET m1 == MoveForward(m0, t, index + 1)
    IN IF m1.thrown THEN m1 ELSE [PopBack(m1) EXCEPT !.ret = index]

\* mutant: the early return compares with < instead of <=
ReserveStrict(m0, t, newCapacity) ==
    IF m0.thrown \/ newCapacity < Capacity(m0.data) THEN m0
    ELSE LET m1 == Allocate(m0, newCapacity)
             m2 == Relocate(m1, t, 0, m0.size, 0, "reloc")
         IN Release(Adopt(m2))

\* Vector::Reserve
Reserve(m0, t, newCapacity) ==
    IF m0.thrown \/ newCapacity <= Capacity(m0.data) THEN m0
    ELSE LET m1 == Allocate(m0, newCapacity)
             m2 == Relocate(m1, t, 0, m0.size, 0, "reloc")
         IN Release(Adopt(m2))

\* std::uninitialized_value_construct_n(blk + first, n)
RECURSIVE UninitializedValueConstructN(_, _, _, _, _)
UninitializedValueConstructN(m, blk, first, n, k) ==
    IF m.thrown \/ k >= n THEN m
    ELSE IF Fires(m, TRUE) THEN Throw(DestroyN(m, blk, first, k), "default")
    ELSE UninitializedValueConstructN(
             Construct(m, blk, first + k, DefaultValue, TRUE, "default"),
             blk, first, n, k + 1)

\* mutant: shrinking only lowers the length
ResizeKeepsTail(m0, t, newSize) ==
    IF newSize < m0.size
    THEN [m0 EXCEPT !.size = newSize]
    ELSE IF newSize > m0.size
    THEN LET m1 == Reserve(m0, t, newSize)
             m2 == UninitializedValueConstructN(m1, "data", m0.size,
                                                newSize - m0.size, 0)
         IN IF m2.thrown THEN m2 ELSE [m2 EXCEPT !.size = newSize]
    ELSE m0

\* Vector::Resize
Resize(m0, t, newSize) ==
    IF newSize < m0.size
    THEN [DestroyN(m0, "data", newSize, m0.size - newSize)
             EXCEPT !.size = newSize]
    ELSE IF newSize > m0.size
    THEN LET m1 == Reserve(m0, t, newSize)
             m2 == UninitializedValueConstructN(m1, "data", m0.size,
                                                newSize - m0.size, 0)
         IN IF m2.thrown THEN m2 ELSE [m2 EXCEPT !.size = newSize]
    ELSE m0

\* std::copy(rhs.data_, rhs.data_ + n, data_)
RECURSIVE CopyN(_, _, _)
CopyN(m, n, k) ==
    IF m.thrown \/ k >= n THEN m
    ELSE CopyN(AssignOne(m, "rhs", k, "data", k, FALSE, TRUE, "assign"),
               n, k + 1)

\* mutant: the excess elements of the receiver are not destroyed
CopyKeepsExcess(m0) ==
    LET m1 == IF m0.rsize < m0.size
              THEN CopyN(m0, m0.rsize, 0)
              ELSE UninitializedCopyN(CopyN(m0, m0.size, 0), "rhs", m0.size,
                                      m0.rsize - m0.size, "data", m0.size,
                                      "copy")
    IN IF m1.thrown THEN m1 ELSE [m1 EXCEPT !.size = m0.rsize]

\* Vector::Copy of part_000, the inlined else-branch of operator= in vector.h
Copy(m0) ==
    LET m1 == IF m0.rsize < m0.size
              THEN LET a == CopyN(m0, m0.rsize, 0)
                   IN IF a.thrown THEN a
                      ELSE DestroyN(a, "data", m0.rsize, m0.size - m0.rsize)
              ELSE UninitializedCopyN(CopyN(m0, m0.size, 0), "rhs", m0.size,
                                      m0.rsize - m0.size, "data", m0.size,
                                      "copy")
    IN IF m1.thrown THEN m1 ELSE [m1 EXCEPT !.size = m0.rsize]

\* Vector rhs_copy(rhs); Swap(rhs_copy); followed by ~Vector of rhs_copy
CopyAndSwap(m0) ==
    LET m1 == Allocate(m0, m0.rsize)
        m2 == UninitializedCopyN(m1, "rhs", 0, m0.rsize, "nd", 0, "copy")
    IN IF m2.thrown THEN Release(m2)
       ELSE Release(DestroyN([SwapData(m2) EXCEPT !.size = m0.rsize],
                             "nd", 0, m0.size))

\* Vector::operator=(const Vector&) with this != &rhs
CopyAssign(m0) ==
    IF m0.rsize > Capacity(m0.data) THEN CopyAndSwap(m0) ELSE Copy(m0)

\* mutant: the receiver takes the storage, the source is left empty and the
\* receiver's old storage is dropped
MoveAssignSteals(m0) == [m0 EXCEPT !.data = m0.rhs, !.size = m0.rsize,
                                   !.rhs = RawBlock(0), !.rsize = 0]

\* Vector::operator=(Vector&&) with this != &rhs: Swap(rhs)
MoveAssign(m0) == [m0 EXCEPT !.data = m0.rhs, !.size = m0.rsize,
                             !.rhs = m0.data, !.rsize = m0.size]

\* Vector::Swap
Swap(m) == [m EXCEPT !.data = m.rhs, !.size = m.rsize,
                     !.rhs = m.data, !.rsize = m.size]

\* the member data_ is initialised from the block just allocated
Hold(m) == [m EXCEPT !.data = m.nd, !.nd = RawBlock(0), !.hasNd = FALSE]

\* Vector::Vector(size_t size); when the body throws, the member data_ is
\* released and no object comes to exist
SizedConstruct(m0, size) ==
    LET m1 == Allocate(m0, size)
        m2 == UninitializedValueConstructN(m1, "nd", 0, size, 0)
    IN IF m2.thrown THEN Release(m2) ELSE [Hold(m2) EXCEPT !.size = size]

\* mutant: the copy takes the capacity of the source
CopyConstructSameCapacity(m0) ==
    LET m1 == Allocate(m0, Capacity(m0.rhs))
        m2 == UninitializedCopyN(m1, "rhs", 0, m0.rsize, "nd", 0, "copy")
    IN IF m2.thrown THEN Release(m2) ELSE [Hold(m2) EXCEPT !.size = m0.rsize]

\* Vector::Vector(const Vector& other)
CopyConstruct(m0) ==
    LET m1 == Allocate(m0, m0.rsize)
        m2 == UninitializedCopyN(m1, "rhs", 0, m0.rsize, "nd", 0, "copy")
    IN IF m2.thrown THEN Release(m2) ELSE [Hold(m2) EXCEPT !.size = m0.rsize]

\* mutant: the elements are move-constructed one by one into a new block
MoveConstructByElements(m0) ==
    LET m1 == Allocate(m0, m0.rsize)
        m2 == UninitN(m1, "rhs", 0, m0.rsize, "nd", 0, TRUE, FALSE, "move", 0)
    IN [Hold(m2) EXCEPT !.size = m0.rsize]

\* Vector::Vector(Vector&& other): the members take their default values,
\* then Swap(other)
MoveConstruct(m0) == Swap(m0)

\* mutant: every slot of the block is destroyed
DestructorWholeBlock(m0) ==
    LET m1 == DestroyN(m0, "data", 0, Capacity(m0.data))
    IN [m1 EXCEPT !.frees = @ + (IF Capacity(m1.data) > 0 THEN 1 ELSE 0),
                  !.leaked = @ + Cardinality(Live(m1.data)),
                  !.log = IF Capacity(m1.data) > 0
                          THEN Append(@, [op |-> "free", blk |-> "data", i |-> -1])
                          ELSE @,
                  !.data = RawBlock(0), !.size = 0]

\* Vector::~Vector: std::destroy_n(data_.GetAddress(), size_), then the
\* member data_ is destroyed: ~RawMemory releases the block
Destructor(m0) ==
    LET m1 == DestroyN(m0, "data", 0, m0.size)
    IN [m1 EXCEPT !.frees = @ + (IF Capacity(m1.data) > 0 THEN 1 ELSE 0),
                  !.leaked = @ + Cardinality(Live(m1.data)),
                  !.log = IF Capacity(m1.data) > 0
                          THEN Append(@, [op |-> "free", blk |-> "data", i |-> -1])
                          ELSE @,
                  !.data = RawBlock(0), !.size = 0]

\* ---- the calls a user of the container can make ----
Begin(fuse) == Start(data_, size_, RawBlock(0), 0, fuse)

\* the other operand of an assignment: a valid container
RhsVectors ==
    UNION {UNION {{[data |-> [i \in 0..(c - 1) |-> IF i < n THEN f[i] ELSE Raw],
                    size |-> n] : f \in [0..(n - 1) -> Values]}
                  : n \in 0..c} : c \in 0..MaxRhs}

\* the operands the properties range over
Operands ==
    UNION {UNION {{[data |-> [i \in 0..(c - 1) |-> IF i < n THEN f[i] ELSE Raw],
                    size |-> n] : f \in [0..(n - 1) -> Values]}
                  : n \in 0..c} : c \in 0..(MaxRhs + 1)}

CallEmplaceBack(v, fuse) == EmplaceBack(Begin(fuse), T, v, TRUE)

\* PushBack(const T&) copies its argument, PushBack(T&&) moves it
CallPushBack(v, byMove, fuse) ==
    EmplaceBack(Begin(fuse), T, v, ~(byMove /\ T.nothrowMove))

\* PushBack(v[j]): the argument refers to an element of the container
CallPushBackElement(j, fuse) == EmplaceBack(Begin(fuse), T, Ref(j), TRUE)

\* Insert(pos, v[j]), Emplace(pos, v[j])
CallInsertElement(index, j, fuse) ==
    Emplace(Begin(fuse), T, index, Ref(j), TRUE, FALSE)

CallPopBack == PopBack(Begin(0))

CallEmplace(index, v, fuse) == Emplace(Begin(fuse), T, index, v, TRUE, FALSE)

\* Insert(pos, const T&) of both drafts and Insert(pos, T&&) of the draft
\* that forwards to Emplace
CallInsert(index, v, byMove, fuse) ==
    Emplace(Begin(fuse), T, index, v, ~(byMove /\ T.nothrowMove), FALSE)

\* Insert(pos, T&&) of vector.h, with its single try block
CallInsertRvalue(index, v, fuse) ==
    Emplace(Begin(fuse), T, index, v, ~T.nothrowMove, TRUE)

CallErase(index, fuse) == Erase(Begin(fuse), T, index)

CallReserve(k, fuse) == Reserve(Begin(fuse), T, k)

CallResize(k, fuse) == Resize(Begin(fuse), T, k)

CallCopyAssign(rhs, fuse) ==
    CopyAssign(Start(data_, size_, rhs.data, rhs.size, fuse))

CallMoveAssign(rhs) == MoveAssign(Start(data_, size_, rhs.data, rhs.size, 0))

CallPopBackUnguarded == PopBackUnguarded(Begin(0))

\* the constructors start from members that hold nothing
CallSizedConstruct(size, fuse) ==
    SizedConstruct(Start(RawBlock(0), 0, RawBlock(0), 0, fuse), size)

CallCopyConstruct(rhs, fuse) ==
    CopyConstruct(Start(RawBlock(0), 0, rhs.data, rhs.size, fuse))

CallMoveConstruct(rhs) ==
    MoveConstruct(Start(RawBlock(0), 0, rhs.data, rhs.size, 0))

CallDestructor == Destructor(Begin(0))

\* the fuse of a call is spent: it threw, or it was not set
Spent(m) == m.fuse = 0

\* 0: nothing fails; f > 0: the f-th fallible step of the call throws.  No
\* call on a block of MaxCap slots has more than MaxCap + 2 fallible steps.
Fuses == 0..(MaxCap + 2)

\* the fuse of a call in which no step fails
NoFailure == 0

Positions == 0..(size_ - 1)

GrowthFits == size_ < Capacity(data_) \/ GrownCapacity(size_) <= MaxCap

Commit(m) ==
    /\ alive
    /\ Spent(m)
    /\ data_' = m.data
    /\ size_' = m.size
    /\ clean' = (clean /\ ~m.thrown)
    /\ UNCHANGED <<T, alive, pairVars, rawVars>>

\* a constructor that returns makes the object; one that throws makes none
Created(m, run) ==
    /\ ~alive
    /\ Spent(m)
    /\ data_' = m.data
    /\ size_' = m.size
    /\ alive' = ~m.thrown
    /\ pushRun' = IF m.thrown THEN -1 ELSE run
    /\ UNCHANGED <<T, clean, pairVars, rawVars>>

\* number of EmplaceBack/PushBack calls that succeeded in a row on a
\* default-constructed container, -1 once another call was made
NextPushRun(m) ==
    IF ~m.thrown /\ pushRun >= 0 /\ pushRun < 3 THEN pushRun + 1 ELSE -1

TypeTraits == [nothrowMove : BOOLEAN, copyable : BOOLEAN,
               nothrowMoveAssign : BOOLEAN]

\* ---- two containers on a heap of blocks ----
Null == 0

VecIds == {1, 2}

\* an address for the block of each container and one for the new block of
\* a call that relocates
PairAddr == 1..(Cardinality(VecIds) + 1)

NoVector == [made |-> FALSE, buf |-> Null, size |-> 0]

\* the block data_.GetAddress() points to
BlockOf(h, v) == IF v.buf = Null THEN RawBlock(0) ELSE h[v.buf]

\* operator new returns storage that no block in use occupies
OperatorNew(h) == {a \in PairAddr : Capacity(h[a]) = 0}

\* operator delete
OperatorDelete(h, a) == IF a = Null THEN h ELSE [h EXCEPT ![a] = RawBlock(0)]

\* mutant: the copy points to the block of the source
CopyStorageShared(y) == {vecs[y].buf}

\* data_(other.size_): the copy of vecs[y] allocates a block of its own
CopyStorage(y) == OperatorNew(heap)

\* the record of a call on vecs[x]
On(x, fuse) ==
    Start(BlockOf(heap, vecs[x]), vecs[x].size, RawBlock(0), 0, fuse)

\* the calls that mutate vecs[x] alone
MutatingCalls(x) ==
    LET n == vecs[x].size
        all == {PopBack(On(x, NoFailure))}
               \cup {EmplaceBack(On(x, fuse), T, v, TRUE) :
                        v \in Values, fuse \in 0..(MaxPairCap + 2)}
               \cup {Emplace(On(x, fuse), T, index, v, TRUE, FALSE) :
                        index \in 0..(n - 1), v \in Values,
                        fuse \in 0..(MaxPairCap + 2)}
               \cup {Erase(On(x, fuse), T, index) :
                        index \in 0..(n - 1), fuse \in 0..(MaxPairCap + 2)}
               \cup {Reserve(On(x, fuse), T, k) :
                        k \in 0..MaxPairCap, fuse \in 0..(MaxPairCap + 2)}
               \cup {Resize(On(x, fuse), T, k) :
                        k \in 0..MaxPairCap, fuse \in 0..(MaxPairCap + 2)}
    IN {m \in all : m.fuse = 0 /\ Capacity(m.data) <= MaxPairCap}

\* a call that allocated and returned has swapped data_ with the new block
Relocated(m) == ~m.thrown /\ m.allocs > 0

\* the addresses the block of a call or of a constructor can be at
NewBlockAt(m, addresses) ==
    IF ~m.thrown /\ m.allocs > 0 /\ Capacity(m.data) > 0 THEN addresses
    ELSE {Null}

\* the heap after a call on vecs[x]: the new block of a call that relocated
\* is at the new address a and the old block is released; any other call
\* wrote to the block data_ points to
SettledHeap(x, m, a) ==
    LET old == vecs[x].buf
    IN IF Relocated(m)
       THEN OperatorDelete([heap EXCEPT ![a] = m.data], old)
       ELSE IF old = Null THEN heap ELSE [heap EXCEPT ![old] = m.data]

\* the members of vecs[x] after the call
SettledVector(x, m, a) ==
    [made |-> TRUE, buf |-> IF Relocated(m) THEN a ELSE vecs[x].buf,
     size |-> m.size]

Settle(x, m) ==
    \E a \in NewBlockAt(m, OperatorNew(heap)) :
        /\ heap' = SettledHeap(x, m, a)
        /\ vecs' = [vecs EXCEPT ![x] = SettledVector(x, m, a)]

\* the heap after a constructor whose block, if it has one, is at a
PlacedHeap(m, a) == IF a = Null THEN heap ELSE [heap EXCEPT ![a] = m.data]

\* the members of the new object
PlacedVector(m, a) == [made |-> TRUE, buf |-> a, size |-> m.size]

\* a constructor that throws makes no object
Place(x, m, addresses) ==
    IF m.thrown THEN UNCHANGED <<heap, vecs>>
    ELSE \E a \in NewBlockAt(m, addresses) :
            /\ heap' = PlacedHeap(m, a)
            /\ vecs' = [vecs EXCEPT ![x] = PlacedVector(m, a)]

\* ---- RawMemory objects ----
RawIds == {1, 2}

RawAddr == 1..MaxBlocks

Drafts == {"part_000", "vector.h"}

NoObject == [made |-> FALSE, buffer |-> Null, capacity |-> 0]

NoMove == [to |-> 0, from |-> 0, buffer |-> Null, capacity |-> 0]

\* RawMemory::Deallocate: operator delete(buf); releasing a block a second
\* time is undefined
Deallocate(b, buffer) ==
    IF buffer = Null THEN b
    ELSE [b EXCEPT ![buffer] = IF @ = "held" THEN "released"
                               ELSE "released twice"]

\* the process may die where the behaviour is undefined
Outcomes(undefined) == IF undefined THEN BOOLEAN ELSE {FALSE}

\* one container, default-constructed: Vector() = default
OneVector ==
    /\ data_ = RawBlock(0)
    /\ size_ = 0
    /\ pushRun = 0
    /\ alive = TRUE
    /\ clean = TRUE

\* no container lives on the heap of blocks
NoPair ==
    /\ heap = [a \in PairAddr |-> RawBlock(0)]
    /\ vecs = [x \in VecIds |-> NoVector]

\* no RawMemory object exists
NoRaws ==
    /\ raws = [x \in RawIds |-> NoObject]
    /\ blocks = [a \in RawAddr |-> "unused"]
    /\ moved = NoMove
    /\ aborted = FALSE

Init ==
    /\ OneVector
    /\ T \in TypeTraits
    /\ NoPair
    /\ NoRaws
    /\ rawDraft = "part_000"

DoEmplaceBack ==
    \E v \in Values, fuse \in Fuses :
        /\ GrowthFits
        /\ \E m \in {CallEmplaceBack(v, fuse)} :
              Commit(m) /\ pushRun' = NextPushRun(m)

DoPushBack ==
    \E v \in Values, fuse \in Fuses, byMove \in BOOLEAN :
        /\ GrowthFits
        /\ byMove \/ T.copyable
        /\ \E m \in {CallPushBack(v, byMove, fuse)} :
              Commit(m) /\ pushRun' = NextPushRun(m)

DoPushBackElement ==
    \E j \in Positions, fuse \in Fuses :
        /\ GrowthFits
        /\ T.copyable
        /\ \E m \in {CallPushBackElement(j, fuse)} :
              Commit(m) /\ pushRun' = NextPushRun(m)

DoInsertElement ==
    \E index \in Positions, j \in Positions, fuse \in Fuses :
        /\ GrowthFits
        /\ T.copyable
        /\ \E m \in {CallInsertElement(index, j, fuse)} :
              Commit(m) /\ pushRun' = -1

DoPopBack ==
    \E m \in {CallPopBack} : Commit(m) /\ pushRun' = -1

DoEmplace ==
    \E v \in Values, fuse \in Fuses, index \in Positions :
        /\ GrowthFits
        /\ \E m \in {CallEmplace(index, v, fuse)} :
              Commit(m) /\ pushRun' = -1

DoInsert ==
    \E v \in Values, fuse \in Fuses, index \in Positions, byMove \in BOOLEAN :
        /\ GrowthFits
        /\ byMove \/ T.copyable
        /\ \E m \in {CallInsert(index, v, byMove, fuse)} :
              Commit(m) /\ pushRun' = -1

DoInsertRvalue ==
    \E v \in Values, fuse \in Fuses, index \in Positions :
        /\ GrowthFits
        /\ \E m \in {CallInsertRvalue(index, v, fuse)} :
              Commit(m) /\ pushRun' = -1

DoErase ==
    \E fuse \in Fuses, index \in Positions :
        \E m \in {CallErase(index, fuse)} : Commit(m) /\ pushRun' = -1

DoReserve ==
    \E fuse \in Fuses, k \in 0..MaxCap :
        \E m \in {CallReserve(k, fuse)} : Commit(m) /\ pushRun' = -1

DoResize ==
    \E fuse \in Fuses, k \in 0..MaxCap :
        \E m \in {CallResize(k, fuse)} : Commit(m) /\ pushRun' = -1

DoCopyAssign ==
    \E fuse \in Fuses, rhs \in RhsVectors :
        /\ T.copyable
        /\ \E m \in {CallCopyAssign(rhs, fuse)} : Commit(m) /\ pushRun' = -1

DoMoveAssign ==
    \E rhs \in RhsVectors :
        \E m \in {CallMoveAssign(rhs)} : Commit(m) /\ pushRun' = -1

\* Vector() = default
DoConstruct == Created(Start(RawBlock(0), 0, RawBlock(0), 0, 0), 0)

DoSizedConstruct ==
    \E size \in 0..MaxCap, fuse \in Fuses :
        \E m \in {CallSizedConstruct(size, fuse)} : Created(m, -1)

DoCopyConstruct ==
    \E rhs \in RhsVectors, fuse \in Fuses :
        /\ T.copyable
        /\ \E m \in {CallCopyConstruct(rhs, fuse)} : Created(m, -1)

DoMoveConstruct ==
    \E rhs \in RhsVectors :
        \E m \in {CallMoveConstruct(rhs)} : Created(m, -1)

\* the object goes out of scope
DoDestroy ==
    /\ alive
    /\ \E m \in {CallDestructor} :
          /\ data_' = m.data
          /\ size_' = m.size
          /\ alive' = FALSE
          /\ clean' = TRUE
          /\ pushRun' = -1
          /\ UNCHANGED <<T, pairVars, rawVars>>

Next ==
    \/ DoConstruct
    \/ DoSizedConstruct
    \/ DoCopyConstruct
    \/ DoMoveConstruct
    \/ DoDestroy
    \/ DoEmplaceBack
    \/ DoPushBack
    \/ DoPushBackElement
    \/ DoInsertElement
    \/ DoPopBack
    \/ DoEmplace
    \/ DoInsert
    \/ DoInsertRvalue
    \/ DoErase
    \/ DoReserve
    \/ DoResize
    \/ DoCopyAssign
    \/ DoMoveAssign

\* ---- the calls on two containers that live on the heap ----
PairSizedConstruct(x) ==
    /\ ~vecs[x].made
    /\ \E size \in 0..MaxPairCap, fuse \in 0..(MaxPairCap + 2) :
          \E m \in {CallSizedConstruct(size, fuse)} :
              Spent(m) /\ Place(x, m, OperatorNew(heap))
    /\ UNCHANGED <<vectorVars, T, rawVars>>

\* Vector vecs[x](vecs[y])
PairCopyConstruct(x, y) ==
    /\ ~vecs[x].made
    /\ vecs[y].made
    /\ T.copyable
    /\ \E fuse \in 0..(MaxPairCap + 2) :
          \E m \in {CopyConstruct(Start(RawBlock(0), 0,
                                        BlockOf(heap, vecs[y]), vecs[y].size,
                                        fuse))} :
              Spent(m) /\ Place(x, m, CopyStorage(y))
    /\ UNCHANGED <<vectorVars, T, rawVars>>

PairCall(x) ==
    /\ vecs[x].made
    /\ vecs[x].size <= Capacity(BlockOf(heap, vecs[x]))
    /\ \E m \in MutatingCalls(x) : Settle(x, m)
    /\ UNCHANGED <<vectorVars, T, rawVars>>

PairDestroy(x) ==
    /\ vecs[x].made
    /\ heap' = OperatorDelete(heap, vecs[x].buf)
    /\ vecs' = [vecs EXCEPT ![x] = NoVector]
    /\ UNCHANGED <<vectorVars, T, rawVars>>

\* the element type is copyable and its move assignment does not throw; its
\* move constructor may throw, so that relocation moves or copies
InitPair ==
    /\ OneVector
    /\ T \in {t \in TypeTraits : t.copyable /\ t.nothrowMoveAssign}
    /\ NoPair
    /\ NoRaws
    /\ rawDraft = "part_000"

NextPair ==
    \E x \in VecIds :
        \/ PairSizedConstruct(x)
        \/ \E y \in VecIds \ {x} : PairCopyConstruct(x, y)
        \/ PairCall(x)
        \/ PairDestroy(x)

\* ---- the calls on RawMemory objects ----
RawStep(r, b, mv, undefined) ==
    /\ ~aborted
    /\ raws' = r
    /\ blocks' = b
    /\ moved' = mv
    /\ aborted' \in Outcomes(undefined)
    /\ UNCHANGED <<vectorVars, T, pairVars, rawDraft>>

\* RawMemory() = default
RawDefault(x) ==
    /\ ~raws[x].made
    /\ RawStep([raws EXCEPT ![x] = [made |-> TRUE, buffer |-> Null,
                                    capacity |-> 0]],
               blocks, NoMove, FALSE)

\* RawMemory(size_t capacity): Allocate(0) is nullptr
RawConstruct(x) ==
    /\ ~raws[x].made
    /\ \E n \in 0..MaxRawCap :
          IF n = 0
          THEN RawStep([raws EXCEPT ![x] = [made |-> TRUE, buffer |-> Null,
                                           capacity |-> 0]],
                       blocks, NoMove, FALSE)
          ELSE \E a \in {c \in RawAddr : blocks[c] = "unused"} :
                  RawStep([raws EXCEPT ![x] = [made |-> TRUE, buffer |-> a,
                                              capacity |-> n]],
                          [blocks EXCEPT ![a] = "held"], NoMove, FALSE)

\* RawMemory(RawMemory&& other): in both drafts the new object takes the
\* buffer and the capacity, the source is left with nullptr and 0
RawMoveConstruct(x, y) ==
    /\ ~raws[x].made
    /\ raws[y].made
    /\ RawStep([raws EXCEPT ![x] = raws[y],
                            ![y] = [made |-> TRUE, buffer |-> Null,
                                    capacity |-> 0]],
               blocks,
               [to |-> x, from |-> y, buffer |-> raws[y].buffer,
                capacity |-> raws[y].capacity],
               FALSE)

\* RawMemory::Swap
RawSwap(r, x, y) == [r EXCEPT ![x] = r[y], ![y] = r[x]]

\* RawMemory::operator=(RawMemory&&) with this != &other.  part_000:
\* Swap(other).  vector.h: delete[] buffer_; Swap(other); where delete[]
\* on storage from operator new is undefined for a buffer that is not
\* null, and leaves other with the pointer just deleted.
RawMoveAssign(x, y) ==
    /\ raws[x].made
    /\ raws[y].made
    /\ LET mv == [to |-> x, from |-> y, buffer |-> raws[y].buffer,
                  capacity |-> raws[y].capacity]
       IN IF rawDraft = "part_000"
          THEN RawStep(RawSwap(raws, x, y), blocks, mv, FALSE)
          ELSE RawStep(RawSwap(raws, x, y),
                       Deallocate(blocks, raws[x].buffer), mv,
                       raws[x].buffer # Null)

\* ~RawMemory: Deallocate(buffer_)
RawDestroy(x) ==
    /\ raws[x].made
    /\ RawStep([raws EXCEPT ![x] = NoObject],
               Deallocate(blocks, raws[x].buffer), NoMove,
               raws[x].buffer # Null /\ blocks[raws[x].buffer] # "held")

InitRaw ==
    /\ OneVector
    /\ T = [nothrowMove |-> TRUE, copyable |-> TRUE, nothrowMoveAssign |-> TRUE]
    /\ NoPair
    /\ NoRaws
    /\ rawDraft \in Drafts

NextRaw ==
    \E x \in RawIds :
        \/ RawDefault(x)
        \/ RawConstruct(x)
        \/ \E y \in RawIds \ {x} : RawMoveConstruct(x, y)
        \/ \E y \in RawIds \ {x} : RawMoveAssign(x, y)
        \/ RawDestroy(x)

\* ---- helpers of the properties ----
Max(a, b) == IF a >= b THEN a ELSE b

\* the calls that append v
AppendCalls(v, fuse) ==
    {CallEmplaceBack(v, fuse)} \cup
    {CallPushBack(v, byMove, fuse) : byMove \in {b \in BOOLEAN : b \/ T.copyable}}

\* the calls that insert v at index
InsertCalls(index, v, fuse) ==
    {CallEmplace(index, v, fuse), CallInsertRvalue(index, v, fuse)} \cup
    {CallInsert(index, v, byMove, fuse) :
        byMove \in {b \in BOOLEAN : b \/ T.copyable}}

Succeeded(m) == Spent(m) /\ ~m.thrown

Failed(m) == Spent(m) /\ m.thrown

\* the container after the call is the container before it
Unchanged(m) == m.size = size_ /\ m.data = data_

\* constructions and destructions, allocations and releases of the call
\* balance, nothing was destroyed twice and no object was abandoned
Balanced(m) ==
    /\ m.ctors = m.dtors
    /\ m.allocs = m.frees
    /\ m.leaked = 0
    /\ m.bad = 0
    /\ ~m.hasNd

Full == size_ = Capacity(data_)

\* C1: after any sequence of operations the container has
\* Size() <= Capacity(), a live element in every slot below Size() and no
\* live element in a slot from Size() to Capacity().
C1_ContainerInvariant ==
    /\ size_ <= Capacity(data_)
    /\ \A i \in DOMAIN data_ : (i < size_) <=> (data_[i] # Raw)

\* C2: a successful EmplaceBack/PushBack increases Size() by exactly one,
\* places the new value at index Size()-1 and leaves every earlier element at
\* its index with its value, with or without reallocation; k successful
\* calls in a row on an empty container give size k.
C2_AppendKeepsElements ==
    /\ \A v \in Values : \A m \in AppendCalls(v, NoFailure) :
          Succeeded(m) /\
              /\ m.size = size_ + 1
              /\ m.size - 1 \in DOMAIN m.data
              /\ m.data[m.size - 1] = v
              /\ m.ret = m.size - 1
              /\ \A i \in 0..(size_ - 1) :
                    i \in DOMAIN m.data /\ m.data[i] = data_[i]
    /\ pushRun >= 0 => size_ = pushRun

C2_Witness ==
    /\ pushRun = 3
    /\ size_ = 3
    /\ \E v \in Values : Succeeded(CallEmplaceBack(v, 0))

\* C3: a successful EmplaceBack, PushBack, Emplace or Insert called with
\* Size() = Capacity() leaves capacity max(1, 2 * old capacity), called with
\* Size() < Capacity() it leaves the capacity unchanged; three PushBack on
\* an empty container give the capacities 0, 1, 2, 4.
C3_GrowthDoubles ==
    /\ \A v \in Values :
          \A m \in AppendCalls(v, NoFailure) \cup
                   UNION {InsertCalls(p, v, NoFailure) : p \in Positions} :
              Succeeded(m) /\
                  Capacity(m.data) = IF Full
                                     THEN Max(1, 2 * Capacity(data_))
                                     ELSE Capacity(data_)
    /\ pushRun = 0 => Capacity(data_) = 0
    /\ pushRun = 1 => Capacity(data_) = 1
    /\ pushRun = 2 => Capacity(data_) = 2
    /\ pushRun = 3 => Capacity(data_) = 4

C3_Witness ==
    /\ pushRun = 3
    /\ Capacity(data_) = 4
    /\ \E v \in Values, index \in Positions :
          LET m == CallEmplace(index, v, 0)
          IN Succeeded(m) /\ Capacity(m.data) = 4

\* C4: when relocation of an existing element fails in a growing
\* EmplaceBack, the container is as before the call and every object
\* constructed in the new block, the new element included, has been destroyed
\* exactly once before the block is released.
C4_RelocationFailureCleansUp ==
    \A v \in Values, fuse \in Fuses : \A m \in AppendCalls(v, fuse) :
        (Full /\ Failed(m) /\ m.threw = "reloc") =>
            /\ Unchanged(m)
            /\ m.ctors = m.dtors
            /\ m.leaked = 0
            /\ m.bad = 0

\* C5: when the allocation of the new block or the construction of the new
\* element fails in a growing EmplaceBack, size, capacity and elements are
\* as before the call, and allocations/releases and
\* constructions/destructions of the call balance.
C5_AllocOrCtorFailureIsClean ==
    \A v \in Values, fuse \in Fuses : \A m \in AppendCalls(v, fuse) :
        (Full /\ Failed(m) /\ m.threw \in {"alloc", "ctor"}) =>
            Unchanged(m) /\ Balanced(m)

C5_Witness ==
    /\ Full
    /\ size_ = 2
    /\ \E v \in Values, fuse \in Fuses :
          LET m == CallEmplaceBack(v, fuse)
          IN Failed(m) /\ m.threw = "ctor" /\ m.allocs = 1 /\ m.frees = 1

\* C6: a successful Emplace/Insert at index p of a container of size n >= 1
\* gives size n+1, the new value at p, the old [0, p) in place and the old
\* [p, n) at [p+1, n+1) in order, in the reallocating and in the in-place
\* path; the returned position is p.
C6_InsertShiftsSuffix ==
    \A v \in Values, p \in Positions :
        \A m \in InsertCalls(p, v, NoFailure) :
            Succeeded(m) /\
                /\ m.size = size_ + 1
                /\ m.size <= Capacity(m.data)
                /\ m.data[p] = v
                /\ m.ret = p
                /\ \A i \in 0..(p - 1) : m.data[i] = data_[i]
                /\ \A i \in p..(size_ - 1) : m.data[i + 1] = data_[i]

C6_Witness ==
    /\ size_ = 3
    /\ ~Full
    /\ data_[0] # data_[1]
    /\ \E v \in Values : Succeeded(CallEmplace(1, v, 0)) /\ v # data_[1]

\* C7: a successful Erase at index p of a container of size n >= 1 gives
\* size n-1 and the same capacity, the old [0, p) in place and the old
\* [p+1, n) at [p, n-1) in order; exactly one element is destroyed and the
\* returned position is p.
C7_EraseShiftsLeft ==
    \A p \in Positions :
        \A m \in {CallErase(p, NoFailure)} :
           Succeeded(m) /\
              /\ m.size = size_ - 1
              /\ Capacity(m.data) = Capacity(data_)
              /\ m.ret = p
              /\ m.dtors = 1
              /\ m.ctors = 0
              /\ m.data[size_ - 1] = Raw
              /\ \A i \in 0..(p - 1) : m.data[i] = data_[i]
              /\ \A i \in (p + 1)..(size_ - 1) : m.data[i - 1] = data_[i]

C7_Witness ==
    /\ size_ = 3
    /\ data_[1] # data_[2]
    /\ Succeeded(CallErase(0, 0))
    /\ C1_ContainerInvariant

\* C8: a successful Reserve(k) leaves size, elements and their order and
\* makes the capacity max(old capacity, k); with k <= old capacity it
\* allocates nothing and constructs, moves and destroys no element.
C8_ReserveKeepsElements ==
    \A fuse \in Fuses, k \in 0..(MaxCap + 1) :
        \A m \in {CallReserve(k, fuse)} :
           /\ fuse = NoFailure =>
                 /\ Succeeded(m)
                 /\ m.size = size_
                 /\ Capacity(m.data) = Max(Capacity(data_), k)
                 /\ \A i \in 0..(size_ - 1) : m.data[i] = data_[i]
           /\ k <= Capacity(data_) =>
                 /\ ~m.thrown
                 /\ m.data = data_
                 /\ m.allocs = 0 /\ m.frees = 0
                 /\ m.ctors = 0 /\ m.moves = 0 /\ m.assigns = 0
                 /\ m.dtors = 0

C8_Witness ==
    /\ size_ = 2
    /\ Capacity(data_) = 3
    /\ Succeeded(CallReserve(4, 0))
    /\ Succeeded(CallReserve(2, 0))

\* C9: when Reserve(k) with k > Capacity() fails in the allocation or in
\* copying an existing element, size, capacity and elements are as before
\* the call, every copy made in the new block has been destroyed exactly
\* once and the new block has been released.
C9_ReserveFailureIsClean ==
    \A fuse \in Fuses, k \in 0..(MaxCap + 1) :
        \A m \in {CallReserve(k, fuse)} :
           (/\ k > Capacity(data_)
            /\ Failed(m)
            /\ m.threw = "alloc" \/ ~MovesOnRelocation(T)) =>
               Unchanged(m) /\ Balanced(m)

C9_Witness ==
    /\ size_ = 3
    /\ ~MovesOnRelocation(T)
    /\ \E fuse \in Fuses :
          LET m == CallReserve(Capacity(data_) + 1, fuse)
          IN Failed(m) /\ m.threw = "reloc" /\ m.ctors = 2 /\ m.dtors = 2

\* the growing calls whose relocation C10 is about
RelocatingCalls ==
    UNION {{CallReserve(k, fuse) : k \in 0..(MaxCap + 1)} \cup
           (IF Full
            THEN UNION {AppendCalls(v, fuse) \cup
                        UNION {InsertCalls(p, v, fuse) : p \in Positions}
                        : v \in Values}
            ELSE {})
           : fuse \in Fuses}

RelocationFailed(m) == Failed(m) /\ m.threw \in {"reloc", "prefix", "suffix"}

\* some element of the original storage was moved from by the call
LeftMovedFrom(m) ==
    \E i \in 0..(size_ - 1) : m.data[i] = MovedFrom /\ data_[i] # MovedFrom

\* C10 as stated: relocation moves elements only when the move construction
\* of the type can never fail, so a failed relocation never leaves an
\* element of the original storage moved from.
C10_MovesOnlyIfNothrow ==
    \A m \in RelocatingCalls :
        /\ (Spent(m) /\ m.moves > 0) => T.nothrowMove
        /\ RelocationFailed(m) => ~LeftMovedFrom(m)

\* C10 amended: relocation moves elements only when the move construction
\* of the type can never fail or the type is not copy-constructible; for a
\* copy-constructible type a failed relocation never leaves an element of
\* the original storage moved from.
C10_MovesOnlyIfNothrowOrNotCopyable ==
    \A m \in RelocatingCalls :
        /\ (Spent(m) /\ m.moves > 0) => (T.nothrowMove \/ ~T.copyable)
        /\ (RelocationFailed(m) /\ T.copyable) => ~LeftMovedFrom(m)

C10_Witness ==
    /\ T.copyable
    /\ ~T.nothrowMove
    /\ Full
    /\ size_ = 2
    /\ \E m \in RelocatingCalls : RelocationFailed(m) /\ m.ctors >= 2

\* no element was constructed, assigned, moved or destroyed and no block was
\* allocated or released by the call
Untouched(m) ==
    /\ m.ctors = 0 /\ m.dtors = 0 /\ m.moves = 0 /\ m.assigns = 0
    /\ m.allocs = 0 /\ m.frees = 0 /\ m.leaked = 0 /\ m.bad = 0

\* C11 as stated: after a = std::move(b) with a and b distinct, b is empty
\* with Size() = 0 and Capacity() = 0 and a holds b's prior size, capacity
\* and elements.
C11_MoveAssignEmptiesSource ==
    \A rhs \in Operands : \A m \in {CallMoveAssign(rhs)} :
        /\ m.data = rhs.data /\ m.size = rhs.size
        /\ m.rsize = 0 /\ Capacity(m.rhs) = 0

\* C11 amended: after a = std::move(b) with a and b distinct, a holds b's
\* prior size, capacity and elements and b holds a's prior size, capacity
\* and elements; no element is constructed, assigned or destroyed.
C11_MoveAssignSwaps ==
    \A rhs \in Operands : \A m \in {CallMoveAssign(rhs)} :
        /\ Succeeded(m)
        /\ m.data = rhs.data /\ m.size = rhs.size
        /\ m.rhs = data_ /\ m.rsize = size_
        /\ Untouched(m)

C11_Witness ==
    /\ size_ = 2
    /\ Capacity(data_) = 4
    /\ \E rhs \in Operands : \E m \in {CallMoveAssign(rhs)} :
          rhs.size = 1 /\ m.size = 1 /\ m.rsize = 2 /\ Capacity(m.rhs) = 4

\* C12: when copy assignment a = b fails, in the allocation, in an element
\* copy construction or in an element copy assignment, in the path that
\* builds a new copy or in the path that reuses the capacity, a has the
\* size, capacity and elements it had before the call.
C12_FailedCopyAssignKeepsReceiver ==
    \A rhs \in Operands, fuse \in Fuses : \A m \in {CallCopyAssign(rhs, fuse)} :
        (T.copyable /\ Failed(m)) => Unchanged(m)

\* C13: after a successful a = b, a has b's size and elements and b is
\* unchanged; the capacity of a is unchanged when b's size <= a's old
\* capacity and is b's size otherwise; in the path that reuses the capacity
\* exactly max(0, old size of a - size of b) elements of a are destroyed.
C13_CopyAssignCopies ==
    \A rhs \in Operands : \A m \in {CallCopyAssign(rhs, NoFailure)} :
        T.copyable =>
            /\ Succeeded(m)
            /\ m.size = rhs.size
            /\ \A i \in 0..(rhs.size - 1) : m.data[i] = rhs.data[i]
            /\ m.rhs = rhs.data /\ m.rsize = rhs.size
            /\ Capacity(m.data) = IF rhs.size <= Capacity(data_)
                                  THEN Capacity(data_) ELSE rhs.size
            /\ rhs.size <= Capacity(data_) =>
                  /\ m.dtors = Max(0, size_ - rhs.size)
                  /\ m.allocs = 0 /\ m.frees = 0
                  /\ \A i \in rhs.size..(size_ - 1) : m.data[i] = Raw

C13_Witness ==
    /\ T.copyable
    /\ size_ = 3
    /\ \E rhs \in Operands : \E m \in {CallCopyAssign(rhs, NoFailure)} :
          rhs.size = 1 /\ Succeeded(m) /\ m.dtors = 2 /\ m.assigns = 1
    /\ \E rhs \in Operands : \E m \in {CallCopyAssign(rhs, NoFailure)} :
          rhs.size = 2 /\ rhs.data[0] # data_[0]

\* the events of std::destroy_n(blk + first, n), in the order they happen
DestroyedInOrder(blk, first, n) ==
    [k \in 1..n |-> [op |-> "destroy", blk |-> blk, i |-> first + k - 1]]

\* what a user of the container v sees on the heap h: size, capacity and
\* elements
View(h, v) ==
    LET block == BlockOf(h, v)
    IN [made |-> v.made, size |-> v.size, capacity |-> Capacity(block),
        elements |-> [i \in 0..(v.size - 1) |->
                         IF i \in DOMAIN block THEN block[i] ELSE Raw]]

ViewOf(x) == View(heap, vecs[x])

\* C14: copy construction from a source of size n and any capacity gives a
\* container with Size() = Capacity() = n and the elements of the source
\* in a storage block of its own; no call made afterwards on one of the two
\* containers, nor its destruction, changes the size, the capacity or an
\* element of the other.
C14_CopyIsIndependent ==
    \A x \in VecIds : \A y \in VecIds \ {x} :
        /\ (~vecs[x].made /\ vecs[y].made /\ T.copyable) =>
              \A m \in {CopyConstruct(Start(RawBlock(0), 0,
                                            BlockOf(heap, vecs[y]),
                                            vecs[y].size, NoFailure))} :
                  \A a \in NewBlockAt(m, CopyStorage(y)) :
                      \A copy \in {View(PlacedHeap(m, a), PlacedVector(m, a))} :
                          /\ Succeeded(m)
                          /\ copy.size = vecs[y].size
                          /\ copy.capacity = vecs[y].size
                          /\ copy.elements = ViewOf(y).elements
                          /\ a = Null <=> vecs[y].size = 0
                          /\ a # Null => a # vecs[y].buf
                          /\ View(PlacedHeap(m, a), vecs[y]) = ViewOf(y)
        /\ (vecs[x].made /\ vecs[y].made) =>
              /\ vecs[x].buf # Null => vecs[x].buf # vecs[y].buf
              /\ \A m \in MutatingCalls(x) :
                    \A a \in NewBlockAt(m, OperatorNew(heap)) :
                        View(SettledHeap(x, m, a), vecs[y]) = ViewOf(y)
              /\ View(OperatorDelete(heap, vecs[x].buf), vecs[y]) = ViewOf(y)

C14_Witness ==
    /\ vecs[1].made /\ vecs[2].made
    /\ vecs[1].size = 2 /\ vecs[2].size = 1
    /\ ViewOf(1).capacity = 2 /\ ViewOf(2).capacity = 2
    /\ ViewOf(1).elements[0] = 1 /\ ViewOf(2).elements[0] = 0
    /\ vecs[1].buf # vecs[2].buf

\* C15: PopBack on a container with Size() = 0 does nothing: the size stays
\* 0, the capacity is unchanged and no destructor is run; on a non-empty
\* container it destroys exactly the last element and lowers Size() by one.
C15_PopBackGuarded ==
    alive =>
        \A m \in {CallPopBack} \cup CallPopBackUnguarded :
            /\ Succeeded(m)
            /\ Capacity(m.data) = Capacity(data_)
            /\ m.bad = 0
            /\ size_ = 0 => (m.size = 0 /\ m.dtors = 0 /\ m.data = data_)
            /\ size_ > 0 =>
                  /\ m.size = size_ - 1
                  /\ m.log = DestroyedInOrder("data", size_ - 1, 1)
                  /\ \A i \in 0..(size_ - 2) : m.data[i] = data_[i]

\* C16: a successful Resize(k) sets Size() to k; for k below the old size it
\* destroys exactly the old size - k trailing elements and keeps the
\* capacity; for k above the old size it default-constructs exactly
\* k - old size trailing elements and the capacity is max(old capacity, k);
\* the elements below min(old size, k) keep their values.
C16_ResizeSetsSize ==
    \A k \in 0..MaxCap : \A m \in {CallResize(k, NoFailure)} :
        /\ Succeeded(m)
        /\ m.size = k
        /\ \A i \in 0..(k - 1) : i < size_ => m.data[i] = data_[i]
        /\ k < size_ =>
              /\ Capacity(m.data) = Capacity(data_)
              /\ m.log = DestroyedInOrder("data", k, size_ - k)
              /\ m.ctors = 0 /\ m.allocs = 0 /\ m.bad = 0
              /\ \A i \in k..(size_ - 1) : m.data[i] = Raw
        /\ k > size_ =>
              /\ Capacity(m.data) = Max(Capacity(data_), k)
              /\ \A i \in size_..(k - 1) : m.data[i] = DefaultValue
              /\ m.ctors = (k - size_)
                           + (IF k > Capacity(data_) THEN size_ ELSE 0)
              /\ m.dtors = IF k > Capacity(data_) THEN size_ ELSE 0
        /\ k = size_ => Unchanged(m) /\ Untouched(m)

C16_Witness ==
    /\ size_ = 2
    /\ Capacity(data_) = 2
    /\ data_[0] # data_[1]
    /\ \E m \in {CallResize(4, NoFailure)} :
          Succeeded(m) /\ Capacity(m.data) = 4 /\ m.ctors = 4
    /\ \E m \in {CallResize(1, NoFailure)} : Succeeded(m) /\ m.dtors = 1

\* C17: move construction Vector a(std::move(b)) gives a exactly b's prior
\* size, capacity and elements without constructing, moving or destroying
\* an element and without allocating, and leaves b empty with size 0 and
\* capacity 0.
C17_MoveConstructTakesStorage ==
    (~alive) =>
        \A rhs \in Operands : \A m \in {CallMoveConstruct(rhs)} :
            /\ Succeeded(m)
            /\ m.data = rhs.data /\ m.size = rhs.size
            /\ m.rsize = 0 /\ Capacity(m.rhs) = 0
            /\ Untouched(m)

C17_Witness ==
    /\ ~alive
    /\ \E rhs \in Operands : \E m \in {CallMoveConstruct(rhs)} :
          /\ rhs.size = 1 /\ Capacity(rhs.data) = 2
          /\ m.size = 1 /\ Capacity(m.data) = 2 /\ m.data[0] = 1

\* every call on the container alone that succeeds
SuccessfulCalls ==
    UNION {AppendCalls(v, NoFailure) : v \in Values}
    \cup UNION {InsertCalls(index, v, NoFailure) :
                    index \in Positions, v \in Values}
    \cup {CallPopBack}
    \cup {CallErase(index, NoFailure) : index \in Positions}
    \cup {CallReserve(k, NoFailure) : k \in 0..MaxCap}
    \cup {CallResize(k, NoFailure) : k \in 0..MaxCap}

\* every assignment from rhs that succeeds
SuccessfulAssignments(rhs) ==
    {CallMoveAssign(rhs)} \cup
    (IF T.copyable THEN {CallCopyAssign(rhs, NoFailure)} ELSE {})

\* every constructor call from rhs that succeeds
SuccessfulConstructions(rhs) ==
    {CallMoveConstruct(rhs)} \cup
    (IF T.copyable THEN {CallCopyConstruct(rhs, NoFailure)} ELSE {})

OwnsBlock(buf) == IF Capacity(buf) > 0 THEN 1 ELSE 0

\* the call constructed exactly the objects it added to the two containers
\* of the call and destroyed every other object it constructed, and it
\* allocated exactly the blocks the containers gained
Accounted(m, data, rhs) ==
    /\ Succeeded(m)
    /\ m.leaked = 0 /\ m.bad = 0 /\ ~m.hasNd /\ Live(m.tmp) = {}
    /\ m.ctors - m.dtors = Cardinality(Live(m.data)) + Cardinality(Live(m.rhs))
                           - Cardinality(Live(data)) - Cardinality(Live(rhs))
    /\ m.allocs - m.frees = OwnsBlock(m.data) + OwnsBlock(m.rhs)
                            - OwnsBlock(data) - OwnsBlock(rhs)

\* C18: the destructor of a container reached by successful operations only
\* destroys each of its Size() elements exactly once in increasing index
\* order, destroys nothing in [Size(), Capacity()), then releases the block
\* exactly once; every successful constructor and operation accounts for
\* the objects and blocks it makes, so that over the lifetime of the
\* container every constructed element is destroyed exactly once and every
\* allocated block is released exactly once.
C18_DestructorDestroysAll ==
    /\ (~alive) =>
          /\ \A k \in 0..MaxCap : \A m \in {CallSizedConstruct(k, NoFailure)} :
                /\ Accounted(m, RawBlock(0), RawBlock(0))
                /\ Live(m.data) = 0..(m.size - 1)
          /\ \A rhs \in Operands : \A m \in SuccessfulConstructions(rhs) :
                /\ Accounted(m, RawBlock(0), rhs.data)
                /\ Live(m.data) = 0..(m.size - 1)
    /\ (alive /\ clean) =>
          /\ Live(data_) = 0..(size_ - 1)
          /\ \A m \in SuccessfulCalls : Accounted(m, data_, RawBlock(0))
          /\ \A rhs \in Operands : \A m \in SuccessfulAssignments(rhs) :
                Accounted(m, data_, rhs.data)
          /\ \A m \in {CallDestructor} :
                /\ m.log = DestroyedInOrder("data", 0, size_)
                           \o (IF Capacity(data_) > 0
                               THEN <<[op |-> "free", blk |-> "data", i |-> -1]>>
                               ELSE << >>)
                /\ m.dtors = size_
                /\ m.frees = OwnsBlock(data_)
                /\ m.bad = 0 /\ m.leaked = 0
                /\ Capacity(m.data) = 0

C18_Witness ==
    /\ alive /\ clean
    /\ size_ = 3
    /\ Capacity(data_) = 4
    /\ \E m \in {CallDestructor} : m.dtors = 3 /\ m.frees = 1 /\ Len(m.log) = 4

\* C20: when relocation of the prefix or of the suffix fails in a growing
\* Emplace or Insert at index p, every object constructed in the new block
\* (the new element, the relocated prefix, the part of the suffix) has been
\* destroyed exactly once, the new block is released, and size, capacity and
\* elements of the container are as before the call.
C20_InsertRelocationFailureCleansUp ==
    \A index \in Positions, v \in Values, fuse \in Fuses :
        \A m \in InsertCalls(index, v, fuse) :
            (Full /\ Failed(m) /\ m.threw \in {"prefix", "suffix"}) =>
                /\ Unchanged(m)
                /\ m.ctors = m.dtors
                /\ m.allocs = 1 /\ m.frees = 1
                /\ m.leaked = 0
                /\ m.bad = 0

\* C21: when a growing Resize(k), k > Size(), fails while it
\* default-constructs one of the new trailing elements, Size(), Capacity()
\* and the elements are as before the call, and the trailing elements the
\* call had constructed have each been destroyed exactly once.
C21_ResizeFailureKeepsState ==
    \A k \in 0..MaxCap, fuse \in Fuses : \A m \in {CallResize(k, fuse)} :
        (alive /\ k > size_ /\ Failed(m) /\ m.threw = "default") =>
            /\ m.size = size_
            /\ Capacity(m.data) = Capacity(data_)
            /\ \A i \in 0..(size_ - 1) : m.data[i] = data_[i]
            /\ \A i \in size_..(k - 1) : m.data[i] = Raw
            /\ m.leaked = 0 /\ m.bad = 0

\* C22: when an in-place Emplace/Insert (Size() < Capacity()) at index p
\* fails at one of its steps (the temporary, the move construction of the
\* last element into slot Size(), a move assignment of the backward shift,
\* the assignment into slot p), Size() and Capacity() are unchanged, no
\* object is left in a slot >= Size() and every object the call constructed
\* has been destroyed exactly once.
C22_InPlaceFailureLeavesNoObject ==
    \A index \in Positions, v \in Values, fuse \in Fuses :
        \A m \in InsertCalls(index, v, fuse) :
            (alive /\ ~Full /\ Live(data_) = 0..(size_ - 1) /\ Failed(m)) =>
                /\ m.size = size_
                /\ Capacity(m.data) = Capacity(data_)
                /\ \A i \in DOMAIN m.data : i >= m.size => m.data[i] = Raw
                /\ m.ctors = m.dtors
                /\ m.leaked = 0 /\ m.bad = 0

\* the events of a relocation of n elements into the new block from dFirst
RelocatedInOrder(dFirst, n) ==
    [k \in 1..n |-> Event("relocate", "nd", dFirst + k - 1)]

\* the steps of the growth path with the new element at index p, in order:
\* allocate, construct the new element, relocate the elements before and
\* after it, destroy the originals, adopt the new block, release the old
\* block if there is one, increment the size
GrowthSteps(p) ==
    <<Event("alloc", "nd", -1), Event("construct", "nd", p)>>
    \o RelocatedInOrder(0, p)
    \o RelocatedInOrder(p + 1, size_ - p)
    \o DestroyedInOrder("data", 0, size_)
    \o <<Event("adopt", "nd", -1)>>
    \o (IF Capacity(data_) > 0 THEN <<Event("free", "nd", -1)>> ELSE << >>)
    \o <<Event("size", "data", -1)>>

\* C23: in the growth path of EmplaceBack and Emplace the steps happen in
\* the order allocate, construct the new element in its slot of the new
\* block, relocate the existing elements, destroy the originals, adopt the
\* new block, increment the size; no existing element is moved from or
\* destroyed before the new element is constructed, so a call whose
\* argument refers to an element of the container (PushBack(v[j])) stores
\* the value that element had before the call.
C23_NewElementConstructedFirst ==
    (alive /\ Full) =>
        /\ \A v \in Values : \A m \in AppendCalls(v, NoFailure) :
              m.log = GrowthSteps(size_)
        /\ \A index \in Positions, v \in Values :
              \A m \in {CallEmplace(index, v, NoFailure)} :
                  m.log = GrowthSteps(index)
        /\ \A j \in {p \in Positions : T.copyable} :
              \A m \in {CallPushBackElement(j, NoFailure)} :
              /\ Succeeded(m)
              /\ m.log = GrowthSteps(size_)
              /\ m.data[size_] = data_[j]
              /\ \A i \in Positions : m.data[i] = data_[i]
              /\ m.bad = 0
        /\ \A index \in Positions, j \in {p \in Positions : T.copyable} :
              \A m \in {CallInsertElement(index, j, NoFailure)} :
                  /\ Succeeded(m)
                  /\ m.log = GrowthSteps(index)
                  /\ m.data[index] = data_[j]
                  /\ m.bad = 0

C23_Witness ==
    /\ alive /\ Full
    /\ size_ = 2
    /\ data_[0] = 0 /\ data_[1] = 1
    /\ T.copyable /\ MovesOnRelocation(T)
    /\ \E m \in {CallPushBackElement(1, NoFailure)} :
          Succeeded(m) /\ m.data[2] = 1 /\ m.moves = 2 /\ Len(m.log) = 9
    /\ \E m \in {CallInsertElement(1, 0, NoFailure)} :
          Succeeded(m) /\ m.data[1] = 0 /\ m.data[2] = 1

\* C19: after a RawMemory move (construction, or assignment from a distinct
\* source to a receiver in any state) the moved-from object holds no memory
\* (null buffer, capacity 0) and the destination holds the former buffer
\* and capacity of the source; over any sequence of moves and destructions
\* no block is released twice, and once every object is destroyed every
\* block handed out has been released.
C19_RawMoveLeavesSourceEmpty ==
    /\ moved # NoMove =>
          /\ raws[moved.from].buffer = Null
          /\ raws[moved.from].capacity = 0
          /\ raws[moved.to].buffer = moved.buffer
          /\ raws[moved.to].capacity = moved.capacity
    /\ ~aborted
    /\ \A a \in RawAddr : blocks[a] # "released twice"
    /\ (\A x \in RawIds : ~raws[x].made) =>
          \A a \in RawAddr : blocks[a] \in {"unused", "released"}

Spec == Init /\ [][Next]_vars

SpecPair == InitPair /\ [][NextPair]_vars

SpecRaw == InitRaw /\ [][NextRaw]_vars
====
